---- MODULE Spec2Model ----
(***************************************************************************)
(* Derived-balance engine of the ERP: loan ledger, goods receipts / sales  *)
(* inventory and customer ledger, modelled as three state machines over    *)
(* one set of variables.  Money and quantities are Decimal(…, 2) in the    *)
(* source; here they are integers (a count of the smallest unit), which    *)
(* keeps sums and comparisons exact as Decimal does.                       *)
(***************************************************************************)
EXTENDS Integers, Sequences, FiniteSets, TLC

\* ---------------------------------------------------------------- bounds
MaxLoanEntries == 3
MaxAmount == 2
MaxDay == 2
MaxReceipts == 2
MaxSalesOrders == 2
MaxFormLines == 1
MaxQty == 2
MaxPostings == 1
MaxEditedOrders == 1
MaxBankAccounts == 2
MaxBankEntries == 3
MaxRequests == 2
MaxAccountLoans == 2

\* Python's None for a nullable date / foreign key (dates and ids start at 1).
None == 0

VARIABLES
    loans,           \* table CreditCardLoan: pk -> row
    ledger_entries,  \* table CreditCardLoanLedger: pk -> row
    today,           \* timezone.now().date()
    lastOp,          \* the operation that returned last, and the row it was called on
    goods_receipts,       \* table GoodsReceipt: pk -> row
    goods_receipt_items,  \* table GoodsReceiptItem: pk -> row
    sales_orders,         \* table SalesOrder: pk -> row
    sales_order_items,    \* table SalesOrderItem: pk -> row
    response,             \* what the last request answered: redirect, form_invalid or warning
    customers,            \* table Customer: pk -> row
    customer_ledger,      \* table CustomerLedger: pk -> row
    clock,                \* timezone.now()
    lastCall,             \* the last request to the customer ledger, and the tables before it
    bank_accounts,        \* table BankAccount: pk -> row
    bank_ledger,          \* table BankAccountLedger: pk -> row
    bank_context,         \* the context of the last transaction ledger page
    requests              \* the requests in flight: what each has loaded, and its position

loanVars == <<loans, ledger_entries, today, lastOp>>
stockVars == <<goods_receipts, goods_receipt_items, sales_orders, sales_order_items, response>>
ledgerVars == <<customers, customer_ledger, clock, lastCall>>
bankVars == <<bank_accounts, bank_ledger, bank_context>>
requestVars == <<requests>>
vars == <<loanVars, stockVars, ledgerVars, bankVars, requestVars>>

\* ---------------------------------------------------------------- helpers
Max(a, b) == IF a >= b THEN a ELSE b

RECURSIVE SumOver(_, _)
\* Sum('field') over the rows of a table whose pk is in ids; f[pk] is the field.
SumOver(f, ids) ==
    IF ids = {} THEN 0
    ELSE LET i == CHOOSE j \in ids : TRUE
         IN  f[i] + SumOver(f, ids \ {i})

Amounts == 1..MaxAmount
Principals == 0..MaxAmount
Days == 1..MaxDay
LoanIds == 1..Len(loans)

\* ------------------------------------------------------------ loan ledger
\* The methods of CreditCardLoan read self (the loaded row, pk its primary key)
\* and query the ledger table as it is at the time of the call.

\* self.ledger_entries.filter(entry_type=t) as a set of pks of table.
EntriesOf(pk, t, table) ==
    {e \in 1..Len(table) : table[e].loan = pk /\ table[e].entry_type = t}

\* .aggregate(total=Sum('payment_amount'))['total'] or Decimal('0.00')
SumPayment(ids, table) ==
    SumOver([e \in 1..Len(table) |-> table[e].payment_amount], ids)

\* Variant without the principal_amount fallback.
get_total_disbursed_NoFallback(self, pk, table) ==
    SumPayment(EntriesOf(pk, "disbursement", table), table)

get_total_disbursed(self, pk, table) ==
    LET total == SumPayment(EntriesOf(pk, "disbursement", table), table)
    IN  IF total > 0 THEN total ELSE self.principal_amount

get_total_paid(self, pk, table) == SumPayment(EntriesOf(pk, "payment", table), table)

get_total_principal_paid(self, pk, table) ==
    LET total_paid == get_total_paid(self, pk, table)
        total_disbursed == get_total_disbursed(self, pk, table)
    IN  IF total_paid <= total_disbursed THEN total_paid ELSE total_disbursed

\* Variant that returns extra_paid as it is, negative or not.
get_total_interest_paid_Unclamped(self, pk, table) ==
    get_total_paid(self, pk, table) - get_total_disbursed(self, pk, table)

get_total_interest_paid(self, pk, table) ==
    LET extra_paid == get_total_paid(self, pk, table) - get_total_disbursed(self, pk, table)
    IN  IF extra_paid > 0 THEN extra_paid ELSE 0

get_outstanding_principal(self, pk, table) ==
    LET outstanding == get_total_disbursed(self, pk, table) - get_total_paid(self, pk, table)
    IN  IF outstanding > 0 THEN outstanding ELSE 0

\* Variant without the elif branch: a closed loan is never set active again.
refresh_status_NeverReopens(self, pk, table, now) ==
    LET outstanding == get_outstanding_principal(self, pk, table)
    IN  IF outstanding <= 0 /\ self.status # "closed"
        THEN [self EXCEPT !.status = "closed",
                          !.closed_date = IF self.closed_date = None THEN now
                                          ELSE self.closed_date]
        ELSE self

\* Variant whose closing branch asks for outstanding < 0.
refresh_status_StrictClose(self, pk, table, now) ==
    LET outstanding == get_outstanding_principal(self, pk, table)
    IN  IF outstanding < 0 /\ self.status # "closed"
        THEN [self EXCEPT !.status = "closed",
                          !.closed_date = IF self.closed_date = None THEN now
                                          ELSE self.closed_date]
        ELSE IF outstanding > 0 /\ self.status = "closed"
        THEN [self EXCEPT !.status = "active", !.closed_date = None]
        ELSE self

\* Variant whose reopening branch leaves closed_date as it is.
refresh_status_KeepsClosedDate(self, pk, table, now) ==
    LET outstanding == get_outstanding_principal(self, pk, table)
    IN  IF outstanding <= 0 /\ self.status # "closed"
        THEN [self EXCEPT !.status = "closed",
                          !.closed_date = IF self.closed_date = None THEN now
                                          ELSE self.closed_date]
        ELSE IF outstanding > 0 /\ self.status = "closed"
        THEN [self EXCEPT !.status = "active"]
        ELSE self

\* The row self.refresh_status() leaves (self unchanged when neither branch is taken).
refresh_status(self, pk, table, now) ==
    LET outstanding == get_outstanding_principal(self, pk, table)
    IN  IF outstanding <= 0 /\ self.status # "closed"
        THEN [self EXCEPT !.status = "closed",
                          !.closed_date = IF self.closed_date = None THEN now
                                          ELSE self.closed_date]
        ELSE IF outstanding > 0 /\ self.status = "closed"
        THEN [self EXCEPT !.status = "active", !.closed_date = None]
        ELSE self

\* CreditCardLoan(...).save() with the model's defaults: no ledger row is written
\* (the admin's add form, or a loan that predates the disbursement rows).
\* The loan engine works on one loan per call and no method reads another loan's
\* rows, so the loan state machine follows a single loan.
CreditCardLoan_create(p) ==
    /\ loans' = Append(loans, [principal_amount |-> p, status |-> "active", closed_date |-> None])
    /\ lastOp' = [op |-> "CreditCardLoan_create", id |-> Len(loans) + 1]
    /\ UNCHANGED <<ledger_entries, today, stockVars, ledgerVars, bankVars, requestVars>>

\* CreditCardLoanCreateView.form_valid: the form's row, then the initial disbursement.
CreditCardLoanCreateView(p, st, cd) ==
    /\ Len(ledger_entries) < MaxLoanEntries
    /\ loans' = Append(loans, [principal_amount |-> p, status |-> st, closed_date |-> cd])
    /\ ledger_entries' = Append(ledger_entries,
            [loan |-> Len(loans) + 1, entry_type |-> "disbursement", payment_amount |-> p])
    /\ lastOp' = [op |-> "CreditCardLoanCreateView", id |-> Len(loans) + 1]
    /\ UNCHANGED <<today, stockVars, ledgerVars, bankVars, requestVars>>

\* CreditCardLoanUpdateView: the form writes principal_amount, status and closed_date.
CreditCardLoanUpdateView(l, p, st, cd) ==
    /\ l \in LoanIds
    /\ loans' = [loans EXCEPT ![l] = [principal_amount |-> p, status |-> st, closed_date |-> cd]]
    /\ lastOp' = [op |-> "CreditCardLoanUpdateView", id |-> l]
    /\ UNCHANGED <<ledger_entries, today, stockVars, ledgerVars, bankVars, requestVars>>

\* CreditCardLoanLedgerCreateView.form_valid: save the entry, then loan.refresh_status().
CreditCardLoanLedgerCreateView(l, t, a) ==
    /\ l \in LoanIds
    /\ Len(ledger_entries) < MaxLoanEntries
    /\ ledger_entries' = Append(ledger_entries,
            [loan |-> l, entry_type |-> t, payment_amount |-> a])
    /\ loans' = [loans EXCEPT ![l] = refresh_status(loans[l], l, ledger_entries', today)]
    /\ lastOp' = [op |-> "CreditCardLoanLedgerCreateView", id |-> l]
    /\ UNCHANGED <<today, stockVars, ledgerVars, bankVars, requestVars>>

\* loan.refresh_status() called on its own.
RefreshStatus(l) ==
    /\ l \in LoanIds
    /\ loans' = [loans EXCEPT ![l] = refresh_status(loans[l], l, ledger_entries, today)]
    /\ lastOp' = [op |-> "refresh_status", id |-> l]
    /\ UNCHANGED <<ledger_entries, today, stockVars, ledgerVars, bankVars, requestVars>>

\* A day passes.
NextDay ==
    /\ today < MaxDay
    /\ today' = today + 1
    /\ lastOp' = [op |-> "NextDay", id |-> None]
    /\ UNCHANGED <<loans, ledger_entries, stockVars, ledgerVars, bankVars, requestVars>>

StockEmpty ==
    /\ goods_receipts = <<>>
    /\ goods_receipt_items = <<>>
    /\ sales_orders = <<>>
    /\ sales_order_items = <<>>
    /\ response = "none"

LoanEmpty ==
    /\ loans = <<>>
    /\ ledger_entries = <<>>
    /\ today = 1
    /\ lastOp = [op |-> "init", id |-> None]

Customers == {1, 2}

\* lastCall when the last request was not a call of the sale-entry upsert.
NoCall == [op |-> "none", order |-> None, customer |-> None, count |-> 0,
           at |-> None, before |-> <<>>]

LedgerEmpty ==
    /\ customers = [c \in Customers |-> [current_balance |-> 0]]
    /\ customer_ledger = <<>>
    /\ clock = 1
    /\ lastCall = NoCall

\* ------------------------------------------------- bank account ledger
BankAccountIds == 1..Len(bank_accounts)
BankEntryTypes == {"deposit", "withdrawal"}
OpeningBalances == 0..1

\* bank_context before any ledger page has been rendered.
NoContext == [account |-> None, ledger_rows |-> <<>>]

BankEmpty ==
    /\ bank_accounts = <<>>
    /\ bank_ledger = <<>>
    /\ bank_context = NoContext
    /\ requests = <<>>

LoanInit == LoanEmpty /\ StockEmpty /\ LedgerEmpty /\ BankEmpty

LoanNext ==
    \/ \E p \in Principals : loans = <<>> /\ CreditCardLoan_create(p)
    \/ \E p \in Principals, st \in {"active", "closed"}, cd \in {None} \cup Days :
            loans = <<>> /\ CreditCardLoanCreateView(p, st, cd)
    \/ \E l \in LoanIds, p \in Principals, st \in {"active", "closed"}, cd \in {None} \cup Days :
            CreditCardLoanUpdateView(l, p, st, cd)
    \/ \E l \in LoanIds, t \in {"disbursement", "payment"}, a \in Amounts :
            CreditCardLoanLedgerCreateView(l, t, a)
    \/ \E l \in LoanIds : RefreshStatus(l)
    \/ NextDay

LoanSpec == LoanInit /\ [][LoanNext]_vars

\* ------------------------------------------------ purchases and inventory
Products == {1, 2}
Warehouses == {1, 2}
Quantities == 1..MaxQty

\* table PurchaseOrderItem of one purchase order: pk -> row (quantity is the ordered
\* quantity).  Product 2 is on sale but is not on the purchase order.
purchase_order_items == <<[product |-> 1, quantity |-> MaxQty]>>
OrderItemIds == 1..Len(purchase_order_items)

\* .aggregate(total=Sum('quantity'))['total'] or Decimal('0')
SumQuantity(ids, table) == SumOver([i \in 1..Len(table) |-> table[i].quantity], ids)

\* Variant without the goods_receipt__status='received' filter.
get_received_quantity_AnyStatus(poi, receipts, items) ==
    SumQuantity({i \in 1..Len(items) : items[i].purchase_order_item = poi}, items)

\* PurchaseOrderItem.get_received_quantity on the given tables.
get_received_quantity(poi, receipts, items) ==
    SumQuantity({i \in 1..Len(items) :
                    /\ items[i].purchase_order_item = poi
                    /\ receipts[items[i].goods_receipt].status = "received"}, items)

get_remaining_quantity(poi, receipts, items) ==
    Max(0, purchase_order_items[poi].quantity - get_received_quantity(poi, receipts, items))

is_fully_received(poi, receipts, items) ==
    get_received_quantity(poi, receipts, items) >= purchase_order_items[poi].quantity

\* total_purchase_received of get_realtime_quantity (warehouse = None: no warehouse filter).
total_purchase_received(product, warehouse, receipts, items) ==
    SumQuantity({i \in 1..Len(items) :
                    /\ items[i].product = product
                    /\ receipts[items[i].goods_receipt].status = "received"
                    /\ (warehouse # None => items[i].warehouse = warehouse)}, items)

\* Variant that counts the delivered sales of every warehouse.
total_sales_delivered_AllWarehouses(product, warehouse, orders, sitems) ==
    SumQuantity({i \in 1..Len(sitems) :
                    /\ sitems[i].product = product
                    /\ orders[sitems[i].sales_order].status = "delivered"}, sitems)

\* total_sales_delivered of get_realtime_quantity.
total_sales_delivered(product, warehouse, orders, sitems) ==
    SumQuantity({i \in 1..Len(sitems) :
                    /\ sitems[i].product = product
                    /\ orders[sitems[i].sales_order].status = "delivered"
                    /\ (warehouse # None => sitems[i].warehouse = warehouse)}, sitems)

\* Variant that returns stock without max(Decimal('0'), stock).
get_realtime_quantity_Unclamped(product, warehouse, receipts, items, orders, sitems) ==
    total_purchase_received(product, warehouse, receipts, items)
    - total_sales_delivered(product, warehouse, orders, sitems)

\* Product.get_realtime_quantity(warehouse) on the given tables.
get_realtime_quantity(product, warehouse, receipts, items, orders, sitems) ==
    LET stock == total_purchase_received(product, warehouse, receipts, items)
                 - total_sales_delivered(product, warehouse, orders, sitems)
    IN  Max(0, stock)

\* The same three queries on the stored tables.
ReceivedQty(poi) == get_received_quantity(poi, goods_receipts, goods_receipt_items)
RemainingQty(poi) == get_remaining_quantity(poi, goods_receipts, goods_receipt_items)
OnHand(product, warehouse) ==
    get_realtime_quantity(product, warehouse, goods_receipts, goods_receipt_items,
                          sales_orders, sales_order_items)

\* The posted formsets: up to MaxFormLines forms, each a row of the given kind.
Formsets(rows) == UNION {[1..n -> rows] : n \in 0..MaxFormLines}

ReceiptForms ==
    [purchase_order_item : OrderItemIds, warehouse : Warehouses \cup {None}, quantity : Quantities]

SalesForms == [product : Products, warehouse : Warehouses, quantity : Quantities]

\* Variant that compares with the ordered quantity instead of the remaining one.
GoodsReceiptItemForm_clean_Ordered(form) ==
    ~(form.quantity > purchase_order_items[form.purchase_order_item].quantity)

\* GoodsReceiptItemForm.clean accepts the form (clean_quantity has passed: quantity > 0).
GoodsReceiptItemForm_clean(form) ==
    ~(form.quantity > RemainingQty(form.purchase_order_item))

\* SalesOrderItemForm.clean accepts the form.
SalesOrderItemForm_clean(form) ==
    ~(form.quantity > OnHand(form.product, form.warehouse))

\* GoodsReceiptCreateView.form_valid with a valid formset: the receipt (draft) and its lines.
GoodsReceiptCreateView(forms) ==
    /\ Len(goods_receipts) < MaxReceipts
    /\ \A n \in 1..Len(forms) : GoodsReceiptItemForm_clean(forms[n])
    /\ goods_receipts' = Append(goods_receipts, [status |-> "draft"])
    /\ goods_receipt_items' = goods_receipt_items \o
          [n \in 1..Len(forms) |->
              [goods_receipt |-> Len(goods_receipts) + 1,
               purchase_order_item |-> forms[n].purchase_order_item,
               product |-> purchase_order_items[forms[n].purchase_order_item].product,
               warehouse |-> forms[n].warehouse,
               quantity |-> forms[n].quantity]]
    /\ response' = "redirect"
    /\ UNCHANGED <<sales_orders, sales_order_items, loanVars, ledgerVars, bankVars, requestVars>>

\* GoodsReceiptCreateView.form_valid when a form fails: nothing is saved.
GoodsReceiptCreateView_invalid(forms) ==
    /\ \E n \in 1..Len(forms) : ~GoodsReceiptItemForm_clean(forms[n])
    /\ response' = "form_invalid"
    /\ UNCHANGED <<goods_receipts, goods_receipt_items, sales_orders, sales_order_items, loanVars, ledgerVars, bankVars, requestVars>>

\* A form of the edit formset: the line's fields and its DELETE box (the fields of
\* a form marked DELETE are not read, so one such form stands for all).
EditForms ==
    {form \in [purchase_order_item : OrderItemIds, warehouse : Warehouses \cup {None},
               quantity : Quantities, DELETE : BOOLEAN] :
        form.DELETE => form.warehouse = None /\ form.quantity = 1
                       /\ form.purchase_order_item = 1}

\* The pks of the lines of receipt pk, the initial forms of its edit formset.
LinesOf(pk) == {i \in 1..Len(goods_receipt_items) : goods_receipt_items[i].goods_receipt = pk}

\* formset.save() of the edit formset: rows i..Len(items) with the forms applied.
RECURSIVE FormsetSave(_, _, _)
FormsetSave(items, forms, i) ==
    IF i > Len(items) THEN <<>>
    ELSE (IF i \notin DOMAIN forms THEN <<items[i]>>
          ELSE IF forms[i].DELETE THEN <<>>
          ELSE <<[items[i] EXCEPT
                    !.purchase_order_item = forms[i].purchase_order_item,
                    !.product = purchase_order_items[forms[i].purchase_order_item].product,
                    !.warehouse = forms[i].warehouse,
                    !.quantity = forms[i].quantity]>>)
         \o FormsetSave(items, forms, i + 1)

\* GoodsReceiptUpdateView.form_valid for receipt pk of any status: one form per
\* line; every form not marked DELETE is cleaned against the stored lines, and the
\* formset is saved only when all of them pass.
GoodsReceiptUpdateView(pk, forms) ==
    /\ pk \in 1..Len(goods_receipts)
    /\ IF \A i \in DOMAIN forms : forms[i].DELETE \/ GoodsReceiptItemForm_clean(forms[i])
       THEN /\ goods_receipt_items' = FormsetSave(goods_receipt_items, forms, 1)
            /\ response' = "redirect"
       ELSE /\ response' = "form_invalid"
            /\ UNCHANGED goods_receipt_items
    /\ UNCHANGED <<goods_receipts, sales_orders, sales_order_items, loanVars, ledgerVars, bankVars, requestVars>>

\* What GoodsReceipt.confirm_receipt and GoodsReceipt.cancel_receipt return.
confirm_receipt_returns(self) == self.status = "draft"
cancel_receipt_returns(self) == self.status = "received"

\* Variant of cancel_receipt that cancels a receipt in any status.
cancel_receipt_AnyStatus(self) == [self EXCEPT !.status = "cancelled"]

\* GoodsReceipt.confirm_receipt: the row it leaves.
confirm_receipt(self) ==
    IF self.status = "draft" THEN [self EXCEPT !.status = "received"] ELSE self

\* GoodsReceipt.cancel_receipt: the row it leaves.
cancel_receipt(self) ==
    IF self.status = "received" THEN [self EXCEPT !.status = "cancelled"] ELSE self

\* View confirm_goods_receipt.
confirm_goods_receipt(pk) ==
    /\ pk \in 1..Len(goods_receipts)
    /\ IF goods_receipts[pk].status = "draft"
       THEN /\ goods_receipts' = [goods_receipts EXCEPT ![pk] = confirm_receipt(goods_receipts[pk])]
            /\ response' = "redirect"
       ELSE /\ response' = "warning"
            /\ UNCHANGED goods_receipts
    /\ UNCHANGED <<goods_receipt_items, sales_orders, sales_order_items, loanVars, ledgerVars, bankVars, requestVars>>

\* View cancel_goods_receipt.
cancel_goods_receipt(pk) ==
    /\ pk \in 1..Len(goods_receipts)
    /\ IF goods_receipts[pk].status = "received"
       THEN /\ goods_receipts' = [goods_receipts EXCEPT ![pk] = cancel_receipt(goods_receipts[pk])]
            /\ response' = "redirect"
       ELSE /\ response' = "warning"
            /\ UNCHANGED goods_receipts
    /\ UNCHANGED <<goods_receipt_items, sales_orders, sales_order_items, loanVars, ledgerVars, bankVars, requestVars>>

\* The rows formset.save() adds for sales order pk.
SalesRows(pk, forms) ==
    [n \in 1..Len(forms) |->
        [sales_order |-> pk, product |-> forms[n].product,
         warehouse |-> forms[n].warehouse, quantity |-> forms[n].quantity]]

\* ------------------------------------------------------ customer ledger
\* CustomerLedger.reference of an order's sale entry (the order number) and of its
\* deposit entry (the order number followed by -DEPOSIT).
SaleReference(pk) == <<pk, "">>
DepositReference(pk) == <<pk, "-DEPOSIT">>

\* generate_invoice_description: the text is a function of the order number, the
\* lines and the charges; it is kept as the order number and the invoice total.
generate_invoice_description(order, pk) == <<"invoice", pk, order.total_amount>>

\* CustomerLedger.objects.filter(customer, reference, transaction_type).first():
\* the pk of the first match, None without a match.
FirstEntry(customer, reference, transaction_type, ledger) ==
    LET match == {i \in 1..Len(ledger) :
                     /\ ledger[i].customer = customer
                     /\ ledger[i].reference = reference
                     /\ ledger[i].transaction_type = transaction_type}
    IN  IF match = {} THEN None ELSE CHOOSE i \in match : \A j \in match : i <= j

\* Variant whose update branch adds the new amount without removing the old one.
create_customer_ledger_entry_NoReverse(order, pk, update_existing, db, t) ==
    IF order.customer = None THEN db
    ELSE
    LET c == order.customer
        description == generate_invoice_description(order, pk)
        existing_entry == IF update_existing
                          THEN FirstEntry(c, SaleReference(pk), "sale", db.customer_ledger)
                          ELSE None
    IN  IF existing_entry # None
        THEN [customers |-> [db.customers EXCEPT ![c].current_balance = @ + order.total_amount],
              customer_ledger |-> [db.customer_ledger EXCEPT ![existing_entry] =
                  [@ EXCEPT !.amount = order.total_amount,
                            !.description = description,
                            !.transaction_date = t]]]
        ELSE [customers |-> [db.customers EXCEPT ![c].current_balance = @ + order.total_amount],
              customer_ledger |-> Append(db.customer_ledger,
                  [customer |-> c, transaction_type |-> "sale",
                   amount |-> order.total_amount, description |-> description,
                   reference |-> SaleReference(pk), transaction_date |-> t])]

\* create_customer_ledger_entry(order, update_existing) called at time t on the
\* tables db = [customers, customer_ledger]: the tables it leaves.
create_customer_ledger_entry(order, pk, update_existing, db, t) ==
    IF order.customer = None THEN db
    ELSE
    LET c == order.customer
        description == generate_invoice_description(order, pk)
        existing_entry == IF update_existing
                          THEN FirstEntry(c, SaleReference(pk), "sale", db.customer_ledger)
                          ELSE None
    IN  IF existing_entry # None
        THEN LET old_amount == db.customer_ledger[existing_entry].amount
             IN  [customers |-> [db.customers EXCEPT ![c].current_balance =
                                    @ - old_amount + order.total_amount],
                  customer_ledger |-> [db.customer_ledger EXCEPT ![existing_entry] =
                      [@ EXCEPT !.amount = order.total_amount,
                                !.description = description,
                                !.transaction_date = t]]]
        ELSE [customers |-> [db.customers EXCEPT ![c].current_balance = @ + order.total_amount],
              customer_ledger |-> Append(db.customer_ledger,
                  [customer |-> c, transaction_type |-> "sale",
                   amount |-> order.total_amount, description |-> description,
                   reference |-> SaleReference(pk), transaction_date |-> t])]

\* Variant whose update branch subtracts the new deposit without restoring the old one.
create_or_update_deposit_ledger_entry_NoReverse(order, pk, deposit_amount, update_existing, db, t) ==
    IF order.customer = None \/ deposit_amount <= 0 THEN db
    ELSE
    LET c == order.customer
        description == <<"deposit", pk, 0>>
        existing_entry == IF update_existing
                          THEN FirstEntry(c, DepositReference(pk), "payment", db.customer_ledger)
                          ELSE None
    IN  IF existing_entry # None
        THEN [customers |-> [db.customers EXCEPT ![c].current_balance = @ - deposit_amount],
              customer_ledger |-> [db.customer_ledger EXCEPT ![existing_entry] =
                  [@ EXCEPT !.amount = deposit_amount,
                            !.description = description,
                            !.transaction_date = t]]]
        ELSE [customers |-> [db.customers EXCEPT ![c].current_balance = @ - deposit_amount],
              customer_ledger |-> Append(db.customer_ledger,
                  [customer |-> c, transaction_type |-> "payment",
                   amount |-> deposit_amount, description |-> description,
                   reference |-> DepositReference(pk), transaction_date |-> t])]

\* create_or_update_deposit_ledger_entry(order, deposit_amount, update_existing)
\* called at time t on the tables db: the tables it leaves.
create_or_update_deposit_ledger_entry(order, pk, deposit_amount, update_existing, db, t) ==
    IF order.customer = None \/ deposit_amount <= 0 THEN db
    ELSE
    LET c == order.customer
        description == <<"deposit", pk, 0>>
        existing_entry == IF update_existing
                          THEN FirstEntry(c, DepositReference(pk), "payment", db.customer_ledger)
                          ELSE None
    IN  IF existing_entry # None
        THEN LET old_amount == db.customer_ledger[existing_entry].amount
             IN  [customers |-> [db.customers EXCEPT ![c].current_balance =
                                    @ + old_amount - deposit_amount],
                  customer_ledger |-> [db.customer_ledger EXCEPT ![existing_entry] =
                      [@ EXCEPT !.amount = deposit_amount,
                                !.description = description,
                                !.transaction_date = t]]]
        ELSE [customers |-> [db.customers EXCEPT ![c].current_balance = @ - deposit_amount],
              customer_ledger |-> Append(db.customer_ledger,
                  [customer |-> c, transaction_type |-> "payment",
                   amount |-> deposit_amount, description |-> description,
                   reference |-> DepositReference(pk), transaction_date |-> t])]

\* ------------------------------------------------------------ sales orders
\* SalesOrderCreateView.form_valid (st = 'order') and InstantSalesCreateView.form_valid
\* (st = 'delivered', no deposit) for customer c (None for a walk-in sale), charges
\* (delivery plus transportation) and the item formset: the header is saved first;
\* the lines, the total and the ledger entries only when every form passes; a failing
\* formset returns form_invalid from inside the atomic block, which commits the
\* header.  Every unit price is 1, so a line's total_price is its quantity.
SalesOrderCreateView(st, c, charges, deposit, forms) ==
    LET pk == Len(sales_orders) + 1
        header == [status |-> st, customer |-> c, total_amount |-> 0,
                   customer_deposit |-> deposit]
        subtotal == SumQuantity(1..Len(forms), forms)
        order == [header EXCEPT !.total_amount = subtotal + charges]
        db0 == [customers |-> customers, customer_ledger |-> customer_ledger]
        db1 == create_customer_ledger_entry(order, pk, FALSE, db0, clock)
        db2 == IF deposit > 0
               THEN create_or_update_deposit_ledger_entry(order, pk, deposit, FALSE, db1, clock)
               ELSE db1
    IN  /\ Len(sales_orders) < MaxSalesOrders
        /\ st = "delivered" => deposit = 0
        /\ IF \A n \in 1..Len(forms) : SalesOrderItemForm_clean(forms[n])
           THEN /\ sales_orders' = Append(sales_orders, order)
                /\ sales_order_items' = sales_order_items \o SalesRows(pk, forms)
                /\ IF c # None
                   THEN customers' = db2.customers /\ customer_ledger' = db2.customer_ledger
                   ELSE UNCHANGED <<customers, customer_ledger>>
                /\ response' = "redirect"
           ELSE /\ sales_orders' = Append(sales_orders, header)
                /\ response' = "form_invalid"
                /\ UNCHANGED <<sales_order_items, customers, customer_ledger>>
        /\ lastCall' = NoCall
        /\ UNCHANGED <<goods_receipts, goods_receipt_items, clock, loanVars, bankVars, requestVars>>

\* SalesOrder.mark_delivered: the row it leaves.
mark_delivered(self) == [self EXCEPT !.status = "delivered"]

\* SalesOrder.cancel_order: the row it leaves.
cancel_order(self) == [self EXCEPT !.status = "cancel"]

\* View mark_order_delivered.
mark_order_delivered(pk) ==
    /\ pk \in 1..Len(sales_orders)
    /\ IF sales_orders[pk].status # "order"
       THEN /\ response' = "warning"
            /\ UNCHANGED sales_orders
       ELSE /\ sales_orders' = [sales_orders EXCEPT ![pk] = mark_delivered(sales_orders[pk])]
            /\ response' = "redirect"
    /\ UNCHANGED <<goods_receipts, goods_receipt_items, sales_order_items, loanVars, ledgerVars, bankVars, requestVars>>

\* View cancel_sales_order.
cancel_sales_order(pk) ==
    /\ pk \in 1..Len(sales_orders)
    /\ IF sales_orders[pk].status = "cancel"
       THEN /\ response' = "warning"
            /\ UNCHANGED sales_orders
       ELSE /\ sales_orders' = [sales_orders EXCEPT ![pk] = cancel_order(sales_orders[pk])]
            /\ response' = "redirect"
    /\ UNCHANGED <<goods_receipts, goods_receipt_items, sales_order_items, loanVars, ledgerVars, bankVars, requestVars>>

StockInit == StockEmpty /\ LoanEmpty /\ LedgerEmpty /\ BankEmpty

StockNext ==
    \/ \E forms \in Formsets(ReceiptForms) : GoodsReceiptCreateView(forms)
    \/ \E forms \in Formsets(ReceiptForms) : GoodsReceiptCreateView_invalid(forms)
    \/ \E pk \in 1..Len(goods_receipts) : \E forms \in [LinesOf(pk) -> EditForms] :
          GoodsReceiptUpdateView(pk, forms)
    \/ \E pk \in 1..Len(goods_receipts) : confirm_goods_receipt(pk)
    \/ \E pk \in 1..Len(goods_receipts) : cancel_goods_receipt(pk)
    \/ \E st \in {"order", "delivered"}, forms \in Formsets(SalesForms) :
            SalesOrderCreateView(st, None, 0, 0, forms)
    \/ \E pk \in 1..Len(sales_orders) : mark_order_delivered(pk)
    \/ \E pk \in 1..Len(sales_orders) : cancel_sales_order(pk)

StockSpec == StockInit /\ [][StockNext]_vars

\* ------------------------------------------------ customer ledger machine
\* Orders of a customer, entered without lines (the total is the charges); the
\* walk-in orders, which never reach the ledger, are in the inventory machine.
\* A call create_customer_ledger_entry(order, user, update_existing=True) for the
\* stored order pk, as SalesOrderUpdateView.form_valid makes it.  lastCall keeps the
\* time of the call, the tables as they were before it, and whether the request
\* before it was the same call for the same order.
create_customer_ledger_entry_call(pk) ==
    LET db0 == [customers |-> customers, customer_ledger |-> customer_ledger]
        db1 == create_customer_ledger_entry(sales_orders[pk], pk, TRUE, db0, clock)
    IN  /\ pk \in 1..Len(sales_orders)
        /\ customers' = db1.customers
        /\ customer_ledger' = db1.customer_ledger
        /\ lastCall' = [op |-> "create_customer_ledger_entry",
                        order |-> pk,
                        customer |-> sales_orders[pk].customer,
                        count |-> IF lastCall.order = pk THEN 2 ELSE 1,
                        at |-> clock,
                        before |-> db0]
        /\ UNCHANGED <<clock, stockVars, loanVars, bankVars, requestVars>>

\* -------------------------------------------------- manual ledger postings
\* CustomerLedger.transaction_type as update_customer_balance tells the types apart.
TransactionTypes == {"sale", "payment", "return", "opening_balance", "adjustment"}

\* The amounts the ledger form posts: an adjustment and an opening balance carry
\* their own sign, the other types are posted as positive amounts.
PostedAmounts(transaction_type) ==
    IF transaction_type \in {"adjustment", "opening_balance"}
    THEN ((0 - MaxAmount)..MaxAmount) \ {0}
    ELSE Amounts

\* Entries posted by hand carry no order number.
ManualReference == <<None, "">>
ManualEntries == {i \in 1..Len(customer_ledger) : customer_ledger[i].reference = ManualReference}

\* CustomerLedger.objects.filter(customer=customer) as a set of pks of ledger.
LedgerEntriesOf(customer, ledger) ==
    {i \in 1..Len(ledger) : ledger[i].customer = customer}

\* Variant of the loop body that adds a return to the balance.
BalanceStep_ReturnAdds(entry) ==
    IF entry.transaction_type \in {"sale", "opening_balance", "return"} THEN entry.amount
    ELSE IF entry.transaction_type \in {"payment"} THEN 0 - entry.amount
    ELSE IF entry.transaction_type = "adjustment" THEN entry.amount
    ELSE 0

\* The body of the loop of update_customer_balance: what one entry adds to
\* total_balance.
BalanceStep(entry) ==
    IF entry.transaction_type \in {"sale", "opening_balance"} THEN entry.amount
    ELSE IF entry.transaction_type \in {"payment", "return"} THEN 0 - entry.amount
    ELSE IF entry.transaction_type = "adjustment" THEN entry.amount
    ELSE 0

\* CustomerLedgerCreateView.update_customer_balance: the current_balance it writes.
update_customer_balance(customer, ledger) ==
    SumOver([i \in 1..Len(ledger) |-> BalanceStep(ledger[i])],
            LedgerEntriesOf(customer, ledger))

\* CustomerLedgerCreateView.form_valid for customer c: the entry is saved, then the
\* balance of the customer is recomputed from all of the customer's entries.
CustomerLedgerCreateView(c, transaction_type, amount) ==
    LET entry == [customer |-> c, transaction_type |-> transaction_type,
                  amount |-> amount, description |-> <<"manual", None, 0>>,
                  reference |-> ManualReference, transaction_date |-> clock]
        ledger == Append(customer_ledger, entry)
    IN  /\ Cardinality(ManualEntries) < MaxPostings
        /\ customer_ledger' = ledger
        /\ customers' = [customers EXCEPT ![c].current_balance =
                            update_customer_balance(c, ledger)]
        /\ lastCall' = [NoCall EXCEPT !.op = "CustomerLedgerCreateView", !.customer = c]
        /\ UNCHANGED <<clock, stockVars, loanVars, bankVars, requestVars>>

\* existing_deposit_entry.delete(): the ledger without entry i.
DeleteEntry(ledger, i) ==
    SubSeq(ledger, 1, i - 1) \o SubSeq(ledger, i + 1, Len(ledger))

\* SalesOrderUpdateView.form_valid for the stored order pk, which has no lines, with
\* the customer c, the charges and the deposit of the form.  The form is bound to
\* self.object, so validating it has already written customer and customer_deposit
\* to the order when old_deposit is read from it; the sale entry is upserted, then
\* the deposit entry is upserted or removed.
SalesOrderUpdateView(pk, c, charges, deposit) ==
    LET object == [sales_orders[pk] EXCEPT !.customer = c, !.customer_deposit = deposit]
        old_deposit == object.customer_deposit
        new_deposit == deposit
        order == [object EXCEPT !.total_amount = charges]
        db0 == [customers |-> customers, customer_ledger |-> customer_ledger]
        db1 == create_customer_ledger_entry(order, pk, TRUE, db0, clock)
        existing_deposit_entry ==
            FirstEntry(c, DepositReference(pk), "payment", db1.customer_ledger)
        db2 == IF new_deposit > 0
               THEN create_or_update_deposit_ledger_entry(order, pk, new_deposit, TRUE,
                                                          db1, clock)
               ELSE IF old_deposit > 0 /\ new_deposit = 0 /\ existing_deposit_entry # None
               THEN [customers |-> [db1.customers EXCEPT ![c].current_balance =
                                       @ + old_deposit],
                     customer_ledger |-> DeleteEntry(db1.customer_ledger,
                                                     existing_deposit_entry)]
               ELSE db1
    IN  /\ pk \in 1..Len(sales_orders)
        /\ \A i \in 1..Len(sales_order_items) : sales_order_items[i].sales_order # pk
        /\ sales_orders' = [sales_orders EXCEPT ![pk] = order]
        /\ IF c # None
           THEN customers' = db2.customers /\ customer_ledger' = db2.customer_ledger
           ELSE UNCHANGED <<customers, customer_ledger>>
        /\ response' = "redirect"
        /\ lastCall' = [NoCall EXCEPT !.op = "SalesOrderUpdateView", !.order = pk,
                                      !.customer = c]
        /\ UNCHANGED <<goods_receipts, goods_receipt_items, sales_order_items, clock,
                       loanVars, bankVars, requestVars>>

\* Time passes between two requests.
Tick ==
    /\ clock < MaxDay
    /\ clock' = clock + 1
    /\ UNCHANGED <<customers, customer_ledger, lastCall, stockVars, loanVars, bankVars, requestVars>>

Deposits == {0, 1}

LedgerInit == LedgerEmpty /\ StockEmpty /\ LoanEmpty /\ BankEmpty

LedgerNext ==
    \/ \E c \in Customers, charges \in 0..MaxAmount, deposit \in Deposits :
          SalesOrderCreateView("order", c, charges, deposit, <<>>)
    \/ \E pk \in 1..Len(sales_orders) : create_customer_ledger_entry_call(pk)
    \/ Tick

LedgerSpec == LedgerInit /\ [][LedgerNext]_vars

\* The requests that post to the customer ledger and keep the cached balance:
\* orders created and edited, and entries posted by hand.
BalanceNext ==
    \/ \E c \in Customers, charges \in 0..MaxAmount, deposit \in Deposits :
          /\ Len(sales_orders) < MaxEditedOrders
          /\ SalesOrderCreateView("order", c, charges, deposit, <<>>)
    \/ \E pk \in 1..Len(sales_orders) :
          \E c \in Customers, charges \in 0..MaxAmount, deposit \in Deposits :
             SalesOrderUpdateView(pk, c, charges, deposit)
    \/ \E c \in Customers, transaction_type \in TransactionTypes :
          \E amount \in PostedAmounts(transaction_type) :
             CustomerLedgerCreateView(c, transaction_type, amount)

BalanceSpec == LedgerInit /\ [][BalanceNext]_vars

\* -------------------------------------------------- inventory properties
ReceiptIds == 1..Len(goods_receipts)
SalesOrderIds == 1..Len(sales_orders)
AnyWarehouse == Warehouses \cup {None}

\* The un-clamped difference that get_realtime_quantity clamps.
RawStock(product, warehouse) ==
    total_purchase_received(product, warehouse, goods_receipts, goods_receipt_items)
    - total_sales_delivered(product, warehouse, sales_orders, sales_order_items)

\* Quantity on the lines of receipt r for order line poi / for product p in warehouse w.
ReceiptQtyFor(r, poi) ==
    SumQuantity({i \in 1..Len(goods_receipt_items) :
                    /\ goods_receipt_items[i].goods_receipt = r
                    /\ goods_receipt_items[i].purchase_order_item = poi}, goods_receipt_items)

\* Quantity on the lines of sales order o for product p in warehouse w.
OrderQtyFor(o, p, w) ==
    SumQuantity({i \in 1..Len(sales_order_items) :
                    /\ sales_order_items[i].sales_order = o
                    /\ sales_order_items[i].product = p
                    /\ sales_order_items[i].warehouse = w}, sales_order_items)

\* The receipt lines that do not belong to receipt r.
ItemsWithout(r) == SelectSeq(goods_receipt_items, LAMBDA x : x.goods_receipt # r)

\* C1: for every purchase-order line, received + remaining = ordered, after any
\* sequence of accepted receipt creations, confirmations and cancellations.
C1_FulfillmentConservation ==
    \A poi \in OrderItemIds :
        ReceivedQty(poi) + RemainingQty(poi) = purchase_order_items[poi].quantity

\* C4: get_realtime_quantity is >= 0 for every product and every warehouse filter
\* (none included), also when delivered sales exceed received goods.
C4_NonNegativeStock ==
    \A p \in Products, w \in AnyWarehouse : OnHand(p, w) >= 0

\* More has been delivered than received, in one warehouse and in total.
C4_Witness ==
    \E p \in Products, w \in Warehouses :
        /\ RawStock(p, w) < 0 /\ OnHand(p, w) = 0
        /\ RawStock(p, None) < 0 /\ OnHand(p, None) = 0

\* C6: a receipt's lines count toward the received quantity of their order lines
\* and toward on-hand stock exactly while the receipt is 'received': a draft or
\* cancelled receipt counts as if it had no lines, confirming a draft adds exactly
\* its line quantities to the received quantity, and cancelling gives back the
\* received and on-hand quantities there were before the receipt was confirmed.
C6_CountsWhileReceived ==
    \A r \in ReceiptIds :
        LET row == goods_receipts[r]
            confirmed == [goods_receipts EXCEPT ![r] = confirm_receipt(row)]
            cancelled == [confirmed EXCEPT ![r] = cancel_receipt(confirmed[r])]
            Recv(poi, receipts) == get_received_quantity(poi, receipts, goods_receipt_items)
            Stock(p, w, receipts, items) ==
                get_realtime_quantity(p, w, receipts, items, sales_orders, sales_order_items)
        IN  /\ row.status # "received" =>
                /\ \A poi \in OrderItemIds :
                      ReceivedQty(poi) = get_received_quantity(poi, goods_receipts, ItemsWithout(r))
                /\ \A p \in Products, w \in AnyWarehouse :
                      OnHand(p, w) = Stock(p, w, goods_receipts, ItemsWithout(r))
            /\ row.status = "draft" =>
                /\ confirmed[r].status = "received"
                /\ \A poi \in OrderItemIds :
                      /\ Recv(poi, confirmed) = ReceivedQty(poi) + ReceiptQtyFor(r, poi)
                      /\ Recv(poi, cancelled) = ReceivedQty(poi)
                /\ \A p \in Products, w \in AnyWarehouse :
                      Stock(p, w, cancelled, goods_receipt_items) = OnHand(p, w)
            /\ row.status = "received" =>
                /\ cancelled[r].status = "cancelled"
                /\ \A poi \in OrderItemIds :
                      /\ ReceivedQty(poi) = get_received_quantity(poi, goods_receipts, ItemsWithout(r))
                                            + ReceiptQtyFor(r, poi)
                      /\ Recv(poi, cancelled) = ReceivedQty(poi) - ReceiptQtyFor(r, poi)
                /\ \A p \in Products, w \in AnyWarehouse :
                      Stock(p, w, cancelled, goods_receipt_items)
                          = Stock(p, w, goods_receipts, ItemsWithout(r))

\* One receipt with a line is received and counts, another with a line on the same
\* order line has been cancelled and does not.
C6_Witness ==
    \E r1, r2 \in ReceiptIds, poi \in OrderItemIds :
        /\ goods_receipts[r1].status = "received" /\ ReceiptQtyFor(r1, poi) > 0
        /\ goods_receipts[r2].status = "cancelled" /\ ReceiptQtyFor(r2, poi) > 0
        /\ ReceivedQty(poi) = ReceiptQtyFor(r1, poi)

\* C7: a sales order line (P, W, q) leaves get_realtime_quantity(P, W) alone while
\* the order's status is 'order', and marking the order delivered reduces
\* get_realtime_quantity(P, W) by exactly the quantity of the order's lines for (P, W).
C7_DeliveryReducesByQuantity ==
    /\ [](\A o \in SalesOrderIds :
            sales_orders[o].status = "order" =>
                \A p \in Products, w \in Warehouses :
                    OnHand(p, w) =
                        get_realtime_quantity(p, w, goods_receipts, goods_receipt_items,
                            sales_orders,
                            SelectSeq(sales_order_items, LAMBDA x : x.sales_order # o)))
    /\ [][\A o \in SalesOrderIds :
            (sales_orders[o].status = "order" /\ sales_orders'[o].status = "delivered") =>
                \A p \in Products, w \in Warehouses :
                    OnHand(p, w)' = OnHand(p, w) - OrderQtyFor(o, p, w)]_vars

\* C8: a receipt line whose quantity exceeds the order line's remaining quantity at
\* that moment fails GoodsReceiptItemForm.clean, no step stores a new or edited
\* receipt line whose quantity exceeded the remaining quantity when it was
\* submitted, and a request answered form_invalid stores nothing.
C8_OverQuantityRejected ==
    /\ [](\A form \in ReceiptForms :
            form.quantity > RemainingQty(form.purchase_order_item)
                => ~GoodsReceiptItemForm_clean(form))
    /\ [][\A i \in 1..Len(goods_receipt_items') :
            (\A j \in 1..Len(goods_receipt_items) :
                goods_receipt_items'[i] # goods_receipt_items[j]) =>
                    goods_receipt_items'[i].quantity
                        <= RemainingQty(goods_receipt_items'[i].purchase_order_item)]_vars
    /\ [][response' = "form_invalid" =>
            goods_receipts' = goods_receipts /\ goods_receipt_items' = goods_receipt_items]_vars

\* A receipt submission has just been answered form_invalid: part of the order line
\* is received, so a line for the full ordered quantity exceeds what remains.
C8_Witness ==
    /\ response = "form_invalid"
    /\ sales_orders = <<>>
    /\ \E poi \in OrderItemIds : RemainingQty(poi) < MaxQty /\ RemainingQty(poi) > 0

\* C9: get_realtime_quantity(warehouse=W) depends only on the received receipt
\* lines and delivered sales lines whose warehouse is W: it is what the same query
\* gives on the tables with every line of another warehouse (or of none) removed.
C9_WarehouseFrame ==
    \A p \in Products, w \in Warehouses :
        OnHand(p, w) =
            get_realtime_quantity(p, w,
                goods_receipts, SelectSeq(goods_receipt_items, LAMBDA x : x.warehouse = w),
                sales_orders, SelectSeq(sales_order_items, LAMBDA x : x.warehouse = w))

\* Warehouse w holds stock while the other warehouse has received goods and has
\* delivered a sale.
C9_Witness ==
    \E p \in Products, w, v \in Warehouses :
        /\ w # v
        /\ OnHand(p, w) > 0
        /\ total_purchase_received(p, v, goods_receipts, goods_receipt_items) > 0
        /\ total_sales_delivered(p, v, sales_orders, sales_order_items) > 0

\* C15: a sales-order creation whose line items fail validation (the request is
\* answered form_invalid) persists nothing: no SalesOrder row, no line item, no
\* customer ledger entry and no change of a customer's balance.
C15_OrderCreationAllOrNothing ==
    [][response' = "form_invalid" =>
          /\ sales_orders' = sales_orders
          /\ sales_order_items' = sales_order_items
          /\ customer_ledger' = customer_ledger
          /\ customers' = customers]_vars

Disbursed(l) == get_total_disbursed(loans[l], l, ledger_entries)
Paid(l) == get_total_paid(loans[l], l, ledger_entries)
Outstanding(l) == get_outstanding_principal(loans[l], l, ledger_entries)
InterestPaid(l) == get_total_interest_paid(loans[l], l, ledger_entries)

\* C2: right after refresh_status() has returned for a loan, its status is
\* 'closed' exactly when its outstanding principal is 0, whatever the row and
\* the ledger were before the call.
C2_StatusMatchesOutstanding ==
    lastOp.op = "refresh_status" =>
        (loans[lastOp.id].status = "closed" <=> Outstanding(lastOp.id) = 0)

\* refresh_status has returned on a loan that the edit form had left closed while
\* money was still owed: it is active again.
C2_Witness ==
    /\ lastOp.op = "refresh_status"
    /\ loans[lastOp.id].status = "active"
    /\ loans[lastOp.id].closed_date = None
    /\ Outstanding(lastOp.id) > 0
    /\ Paid(lastOp.id) > 0

\* C3: in every state reached by posting disbursement and payment entries in any
\* order, outstanding + total paid - interest paid = total disbursed.
C3_LoanBalanceAlgebra ==
    \A l \in LoanIds : Outstanding(l) + Paid(l) - InterestPaid(l) = Disbursed(l)

\* An overpaid loan: payments exceed what was disbursed.
C3_Witness ==
    \E l \in LoanIds :
        /\ EntriesOf(l, "disbursement", ledger_entries) # {}
        /\ Paid(l) > Disbursed(l)
        /\ InterestPaid(l) > 0

RECURSIVE DisbursementSum(_, _)
\* The disbursement amounts of loan l among the first n ledger rows, added row by row.
DisbursementSum(l, n) ==
    IF n = 0 THEN 0
    ELSE DisbursementSum(l, n - 1)
         + (IF ledger_entries[n].loan = l /\ ledger_entries[n].entry_type = "disbursement"
            THEN ledger_entries[n].payment_amount ELSE 0)

\* C10: total disbursed is the sum of the disbursement entries when that sum is
\* positive and principal_amount otherwise; a loan just created with principal p
\* and no ledger entries has total disbursed p, outstanding p and status active.
C10_DisbursedFallback ==
    /\ \A l \in LoanIds :
          Disbursed(l) = IF DisbursementSum(l, Len(ledger_entries)) > 0
                         THEN DisbursementSum(l, Len(ledger_entries))
                         ELSE loans[l].principal_amount
    /\ lastOp.op = "CreditCardLoan_create" =>
          /\ Disbursed(lastOp.id) = loans[lastOp.id].principal_amount
          /\ Outstanding(lastOp.id) = loans[lastOp.id].principal_amount
          /\ loans[lastOp.id].status = "active"

\* A loan with a positive principal has just been created without ledger entries.
C10_Witness ==
    /\ lastOp.op = "CreditCardLoan_create"
    /\ loans[lastOp.id].principal_amount > 0
    /\ ledger_entries = <<>>
    /\ Disbursed(lastOp.id) = loans[lastOp.id].principal_amount

\* The step is CreditCardLoanLedgerCreateView posting an entry of type t to loan l.
EntryPosted(l, t) ==
    /\ lastOp'.op = "CreditCardLoanLedgerCreateView"
    /\ lastOp'.id = l
    /\ Len(ledger_entries') = Len(ledger_entries) + 1
    /\ ledger_entries'[Len(ledger_entries')].entry_type = t

\* The amount of the entry the step has appended.
PostedAmount == ledger_entries'[Len(ledger_entries')].payment_amount

\* C11: a payment posted to an active loan (entry, then refresh_status) leaves it
\* active while total paid stays below total disbursed and closes it, with
\* closed_date set, as soon as total paid reaches total disbursed; a payment posted
\* to a loan that is closed with nothing outstanding leaves status 'closed' and
\* closed_date unchanged, keeps outstanding at 0 and raises the interest overpaid by
\* exactly the payment amount.
C11_PaymentsCloseOnce ==
    [][\A l \in LoanIds :
          EntryPosted(l, "payment") =>
              /\ loans[l].status = "active" =>
                    IF Paid(l)' >= Disbursed(l)'
                    THEN /\ loans'[l].status = "closed"
                         /\ loans'[l].closed_date # None
                         /\ Outstanding(l)' = 0
                    ELSE /\ loans'[l].status = "active"
                         /\ Outstanding(l)' > 0
              /\ (loans[l].status = "closed" /\ Outstanding(l) = 0) =>
                    /\ loans'[l].status = "closed"
                    /\ loans'[l].closed_date = loans[l].closed_date
                    /\ Outstanding(l)' = 0
                    /\ InterestPaid(l)' = InterestPaid(l) + PostedAmount]_vars

\* A loan disbursed through the create view was closed by its payments on an
\* earlier day and has just received a further payment: it keeps its closing date
\* and the last payment counts as interest.
C11_Witness ==
    /\ lastOp.op = "CreditCardLoanLedgerCreateView"
    /\ Len(ledger_entries) >= 3
    /\ ledger_entries[Len(ledger_entries)].entry_type = "payment"
    /\ ledger_entries[1].entry_type = "disbursement"
    /\ loans[lastOp.id].status = "closed"
    /\ loans[lastOp.id].closed_date # None
    /\ loans[lastOp.id].closed_date < today
    /\ Outstanding(lastOp.id) = 0
    /\ InterestPaid(lastOp.id) = ledger_entries[Len(ledger_entries)].payment_amount

\* C12: a disbursement posted to a closed loan that makes the outstanding principal
\* positive leaves the loan active with closed_date empty once the view's
\* refresh_status has run; when a loan reopened this way (active, closed_date
\* empty) is closed again by refresh_status, closed_date is the day of that closing.
C12_ReopenOnDisbursement ==
    [][\A l \in LoanIds :
          /\ (EntryPosted(l, "disbursement") /\ loans[l].status = "closed"
                /\ Outstanding(l)' > 0) =>
                    /\ loans'[l].status = "active"
                    /\ loans'[l].closed_date = None
          /\ (lastOp'.op \in {"CreditCardLoanLedgerCreateView", "refresh_status"}
                /\ lastOp'.id = l
                /\ loans[l].status = "active" /\ loans[l].closed_date = None
                /\ loans'[l].status = "closed") =>
                    loans'[l].closed_date = today]_vars

\* Payment, disbursement, payment: the first payment closed the loan on day 1, the
\* disbursement reopened it, and the last payment has closed it again on a later day.
C12_Witness ==
    /\ lastOp.op = "CreditCardLoanLedgerCreateView"
    /\ Len(ledger_entries) = 3
    /\ ledger_entries[1].entry_type = "payment"
    /\ ledger_entries[1].payment_amount >= loans[lastOp.id].principal_amount
    /\ ledger_entries[2].entry_type = "disbursement"
    /\ ledger_entries[2].payment_amount > ledger_entries[1].payment_amount
    /\ ledger_entries[3].entry_type = "payment"
    /\ loans[lastOp.id].status = "closed"
    /\ today > 1
    /\ loans[lastOp.id].closed_date = today

\* C13: right after refresh_status() has returned for a loan, whatever the loan
\* form had written to status and closed_date: outstanding principal 0 implies
\* status 'closed' with closed_date set, and outstanding principal > 0 implies
\* status 'active' with closed_date empty.
C13_StatusAndClosedDateReconciled ==
    lastOp.op = "refresh_status" =>
        /\ Outstanding(lastOp.id) = 0 =>
              /\ loans[lastOp.id].status = "closed"
              /\ loans[lastOp.id].closed_date # None
        /\ Outstanding(lastOp.id) > 0 =>
              /\ loans[lastOp.id].status = "active"
              /\ loans[lastOp.id].closed_date = None

\* C14: when CreditCardLoanLedgerCreateView or CreditCardLoanCreateView has
\* finished, each having written a ledger entry, the loan's status is 'closed'
\* exactly when its outstanding principal is 0.
C14_EntryCreationReconciles ==
    lastOp.op \in {"CreditCardLoanLedgerCreateView", "CreditCardLoanCreateView"} =>
        (loans[lastOp.id].status = "closed" <=> Outstanding(lastOp.id) = 0)

\* BankAccountCreateView: a new account with the opening balance of the form.
BankAccountCreateView(opening_balance) ==
    /\ Len(bank_accounts) < MaxBankAccounts
    /\ bank_accounts' = Append(bank_accounts, [opening_balance |-> opening_balance])
    /\ bank_context' = NoContext
    /\ UNCHANGED <<bank_ledger, loanVars, stockVars, ledgerVars, requestVars>>

\* BankAccountLedgerEntryCreateView.form_valid: the entry of the form is saved for
\* the account of the URL; clean_amount has rejected amounts that are not positive.
BankAccountLedgerEntryCreateView(pk, entry_type, transaction_date, amount) ==
    /\ pk \in BankAccountIds
    /\ Len(bank_ledger) < MaxBankEntries
    /\ amount > 0
    /\ bank_ledger' = Append(bank_ledger,
            [bank_account |-> pk, entry_type |-> entry_type,
             transaction_date |-> transaction_date, amount |-> amount])
    /\ bank_context' = NoContext
    /\ UNCHANGED <<bank_accounts, loanVars, stockVars, ledgerVars, requestVars>>

\* account.ledger_entries.all() as a set of pks of ledger.
BankEntriesOf(pk, ledger) == {e \in 1..Len(ledger) : ledger[e].bank_account = pk}

\* Variant of the ordering that ignores transaction_date.
ComesBefore_IdOnly(i, j, ledger) == i < j

\* Entry i is before entry j under order_by('transaction_date', 'id').
ComesBefore(i, j, ledger) ==
    \/ ledger[i].transaction_date < ledger[j].transaction_date
    \/ /\ ledger[i].transaction_date = ledger[j].transaction_date
       /\ i < j

RECURSIVE order_by(_, _)
\* .order_by('transaction_date', 'id'): the pks of ids as a sequence in that order.
order_by(ids, ledger) ==
    IF ids = {} THEN <<>>
    ELSE LET first == CHOOSE i \in ids : \A j \in ids \ {i} : ComesBefore(i, j, ledger)
         IN  <<first>> \o order_by(ids \ {first}, ledger)

RECURSIVE RunningBalanceLoop(_, _, _, _)
\* The loop of get_context_data over entries from position k on: the ledger_rows it
\* appends, each with the running balance after its entry.
RunningBalanceLoop(entries, k, running_balance, ledger) ==
    IF k > Len(entries) THEN <<>>
    ELSE LET entry == ledger[entries[k]]
             balance == IF entry.entry_type = "deposit"
                        THEN running_balance + entry.amount
                        ELSE running_balance - entry.amount
         IN  <<[entry |-> entries[k], balance |-> balance]>>
             \o RunningBalanceLoop(entries, k + 1, balance, ledger)

\* BankAccountTransactionLedgerView.get_context_data for account pk.
BankAccountTransactionLedgerView(pk) ==
    LET account == bank_accounts[pk]
        entries == order_by(BankEntriesOf(pk, bank_ledger), bank_ledger)
    IN  /\ pk \in BankAccountIds
        /\ bank_context' = [account |-> pk,
                            ledger_rows |-> RunningBalanceLoop(entries, 1,
                                                account.opening_balance, bank_ledger)]
        /\ UNCHANGED <<bank_accounts, bank_ledger, loanVars, stockVars, ledgerVars, requestVars>>

\* The annotations of BankAccountLedgerListView.get_queryset: the sum of the amounts
\* of the account's entries of one type, 0 without such entries.
total_by_type(pk, entry_type, ledger) ==
    SumOver([e \in 1..Len(ledger) |-> ledger[e].amount],
            {e \in BankEntriesOf(pk, ledger) : ledger[e].entry_type = entry_type})

\* acc.balance of BankAccountLedgerListView.get_context_data.
acc_balance(pk, accounts, ledger) ==
    accounts[pk].opening_balance + total_by_type(pk, "deposit", ledger)
    - total_by_type(pk, "withdrawal", ledger)

BankInit == BankEmpty /\ LoanEmpty /\ StockEmpty /\ LedgerEmpty

BankNext ==
    \/ \E opening_balance \in OpeningBalances : BankAccountCreateView(opening_balance)
    \/ \E pk \in BankAccountIds, entry_type \in BankEntryTypes, d \in Days, a \in Amounts :
          BankAccountLedgerEntryCreateView(pk, entry_type, d, a)
    \/ \E pk \in BankAccountIds : BankAccountTransactionLedgerView(pk)

BankSpec == BankInit /\ [][BankNext]_vars

\* ------------------------------------------------- concurrent ledger postings
\* Requests served at the same time.  Each request in flight keeps what it has loaded
\* in its own objects; the tables are shared, and every save() is one write.
RequestIds == 1..Len(requests)
AllDone == \A r \in RequestIds : requests[r].pc = "done"

\* A sales order request for customer c with total_amount total starts: the form's
\* customer field loads the Customer row when the form is validated, and the order
\* keeps this object as order.customer.
SalesOrderCreateView_begin(c, total) ==
    /\ Len(requests) < MaxRequests
    /\ requests' = Append(requests,
            [view |-> "SalesOrderCreateView", pc |-> "loaded", customer |-> c,
             transaction_type |-> "sale", amount |-> total,
             current_balance |-> customers[c].current_balance])
    /\ UNCHANGED <<loanVars, stockVars, ledgerVars, bankVars>>

\* create_customer_ledger_entry(order) for request r: the entry is created and
\* order.customer, as loaded, is saved with current_balance += order.total_amount.
create_customer_ledger_entry_commit(r) ==
    /\ r \in RequestIds
    /\ requests[r].view = "SalesOrderCreateView"
    /\ requests[r].pc = "loaded"
    /\ customer_ledger' = Append(customer_ledger,
            [customer |-> requests[r].customer, transaction_type |-> "sale",
             amount |-> requests[r].amount,
             description |-> <<"invoice", r, requests[r].amount>>,
             reference |-> <<r, "">>, transaction_date |-> clock])
    /\ customers' = [customers EXCEPT ![requests[r].customer].current_balance =
                        requests[r].current_balance + requests[r].amount]
    /\ requests' = [requests EXCEPT ![r].pc = "done"]
    /\ UNCHANGED <<clock, lastCall, loanVars, stockVars, bankVars>>

\* CustomerLedgerCreateView.form_valid up to super().form_valid(form): the entry of
\* the form is saved.
CustomerLedgerCreateView_save(c, transaction_type, amount) ==
    /\ Len(requests) < MaxRequests
    /\ customer_ledger' = Append(customer_ledger,
            [customer |-> c, transaction_type |-> transaction_type,
             amount |-> amount, description |-> <<"manual", None, 0>>,
             reference |-> ManualReference, transaction_date |-> clock])
    /\ requests' = Append(requests,
            [view |-> "CustomerLedgerCreateView", pc |-> "saved", customer |-> c,
             transaction_type |-> transaction_type, amount |-> amount,
             current_balance |-> customers[c].current_balance])
    /\ UNCHANGED <<customers, clock, lastCall, loanVars, stockVars, bankVars>>

\* update_customer_balance for request r, the loop: total_balance is computed from
\* the entries the table holds now.
update_customer_balance_read(r) ==
    /\ r \in RequestIds
    /\ requests[r].view = "CustomerLedgerCreateView"
    /\ requests[r].pc = "saved"
    /\ requests' = [requests EXCEPT
            ![r].pc = "computed",
            ![r].current_balance = update_customer_balance(requests[r].customer,
                                                           customer_ledger)]
    /\ UNCHANGED <<loanVars, stockVars, ledgerVars, bankVars>>

\* update_customer_balance for request r, customer.save().
update_customer_balance_save(r) ==
    /\ r \in RequestIds
    /\ requests[r].view = "CustomerLedgerCreateView"
    /\ requests[r].pc = "computed"
    /\ customers' = [customers EXCEPT ![requests[r].customer].current_balance =
                        requests[r].current_balance]
    /\ requests' = [requests EXCEPT ![r].pc = "done"]
    /\ UNCHANGED <<customer_ledger, clock, lastCall, loanVars, stockVars, bankVars>>

LedgerRaceNext ==
    \/ \E c \in Customers, total \in Amounts : SalesOrderCreateView_begin(c, total)
    \/ \E r \in RequestIds : create_customer_ledger_entry_commit(r)
    \/ \E c \in Customers, transaction_type \in TransactionTypes :
          \E amount \in PostedAmounts(transaction_type) :
             CustomerLedgerCreateView_save(c, transaction_type, amount)
    \/ \E r \in RequestIds : update_customer_balance_read(r)
    \/ \E r \in RequestIds : update_customer_balance_save(r)

LedgerRaceSpec == LedgerInit /\ [][LedgerRaceNext]_vars

\* ------------------------------------------------- customer ledger statement
\* .order_by('-transaction_date') leaves the order of entries with the same
\* transaction_date to the database: they come by ascending or by descending pk.
TieOrders == {"asc", "desc"}

\* Entry i comes before entry j in the queryset ordered by '-transaction_date'.
ComesFirst(i, j, ledger, ties) ==
    \/ ledger[i].transaction_date > ledger[j].transaction_date
    \/ /\ ledger[i].transaction_date = ledger[j].transaction_date
       /\ IF ties = "asc" THEN i < j ELSE i > j

RECURSIVE order_by_desc(_, _, _)
\* CustomerLedger.objects.filter(customer=customer).order_by('-transaction_date')
\* as a sequence of pks.
order_by_desc(ids, ledger, ties) ==
    IF ids = {} THEN <<>>
    ELSE LET first == CHOOSE i \in ids : \A j \in ids \ {i} : ComesFirst(i, j, ledger, ties)
         IN  <<first>> \o order_by_desc(ids \ {first}, ledger, ties)

\* The body of the loop over ledger_entries: the dictionary appended for entry pk,
\* its balance not computed yet.
StatementRow(pk, ledger) ==
    LET entry == ledger[pk]
        abs == IF entry.amount < 0 THEN 0 - entry.amount ELSE entry.amount
    IN  IF entry.transaction_type = "sale"
        THEN [entry |-> pk, date |-> entry.transaction_date, debit |-> entry.amount,
              credit |-> 0, balance |-> 0]
        ELSE IF entry.transaction_type = "payment"
        THEN [entry |-> pk, date |-> entry.transaction_date, debit |-> 0,
              credit |-> entry.amount, balance |-> 0]
        ELSE [entry |-> pk, date |-> entry.transaction_date,
              debit |-> IF entry.amount > 0 THEN entry.amount ELSE 0,
              credit |-> IF entry.amount < 0 THEN abs ELSE 0, balance |-> 0]

RECURSIVE InsertByDate(_, _)
\* One step of the stable sort by date, newest first: x goes after the rows that
\* are not older than it.
InsertByDate(sorted, x) ==
    IF sorted = <<>> THEN <<x>>
    ELSE IF Head(sorted).date >= x.date
         THEN <<Head(sorted)>> \o InsertByDate(Tail(sorted), x)
         ELSE <<x>> \o sorted

RECURSIVE SortByDateReverse(_, _, _)
\* transactions.sort(key=lambda x: x['date'], reverse=True): the rows from position
\* k on are inserted, in their order, into the rows sorted so far.
SortByDateReverse(transactions, k, sorted) ==
    IF k > Len(transactions) THEN sorted
    ELSE SortByDateReverse(transactions, k + 1, InsertByDate(sorted, transactions[k]))

RECURSIVE RunningBalance(_, _, _)
\* for transaction in reversed(transactions): the rows from position k down to the
\* first get their balance.
RunningBalance(transactions, k, running_balance) ==
    IF k = 0 THEN transactions
    ELSE LET balance == running_balance + transactions[k].debit - transactions[k].credit
         IN  RunningBalance([transactions EXCEPT ![k].balance = balance], k - 1, balance)

\* transactions.reverse()
Reverse(transactions) ==
    [k \in 1..Len(transactions) |-> transactions[Len(transactions) + 1 - k]]

\* sum(t[field] for t in transactions)
SumRows(transactions, field) ==
    SumOver([k \in 1..Len(transactions) |-> transactions[k][field]], 1..Len(transactions))

\* The context CustomerLedgerDetailView.get_context_data and customer_ledger_pdf
\* build for a customer.
StatementContext(customer, ledger, ties) ==
    LET entries == order_by_desc(LedgerEntriesOf(customer, ledger), ledger, ties)
        appended == [k \in 1..Len(entries) |-> StatementRow(entries[k], ledger)]
        sorted == SortByDateReverse(appended, 1, <<>>)
        transactions == Reverse(RunningBalance(sorted, Len(sorted), 0))
        total_debit == SumRows(transactions, "debit")
        total_credit == SumRows(transactions, "credit")
    IN  [transactions |-> transactions, total_debit |-> total_debit,
         total_credit |-> total_credit, current_balance |-> total_debit - total_credit]

StatementViews == {"CustomerLedgerDetailView", "customer_ledger_pdf"}

\* A request for the statement of a customer, by either view; requests keeps the
\* context of the last statement only.
CustomerLedgerDetailView(view, customer, ties) ==
    /\ requests' = <<[view |-> view, pc |-> "done", customer |-> customer,
                      context |-> StatementContext(customer, customer_ledger, ties)]>>
    /\ UNCHANGED <<loanVars, stockVars, ledgerVars, bankVars>>

\* Orders, manual postings and statements of the customers, over time.
StatementNext ==
    \/ \E c \in Customers, charges \in Amounts, deposit \in Deposits :
          /\ Len(sales_orders) < MaxEditedOrders
          /\ SalesOrderCreateView("order", c, charges, deposit, <<>>)
    \/ \E c \in Customers, transaction_type \in TransactionTypes :
          \E amount \in PostedAmounts(transaction_type) :
             CustomerLedgerCreateView(c, transaction_type, amount)
    \/ \E view \in StatementViews, c \in Customers, ties \in TieOrders :
          CustomerLedgerDetailView(view, c, ties)
    \/ Tick

StatementSpec == LedgerInit /\ [][StatementNext]_vars

\* ------------------------------------------------- concurrent loan postings
\* CreditCardLoanLedgerCreateView.form_valid for a request that starts: the loan is
\* loaded with get_object_or_404.
CreditCardLoanLedgerCreateView_load(l, t, a) ==
    /\ l \in LoanIds
    /\ Len(requests) < MaxRequests
    /\ requests' = Append(requests,
            [view |-> "CreditCardLoanLedgerCreateView", pc |-> "loaded", id |-> l,
             loan |-> loans[l], entry_type |-> t, payment_amount |-> a])
    /\ UNCHANGED <<loanVars, stockVars, ledgerVars, bankVars>>

\* super().form_valid(form) of request r: the entry is saved.
CreditCardLoanLedgerCreateView_save(r) ==
    /\ r \in RequestIds
    /\ requests[r].view = "CreditCardLoanLedgerCreateView"
    /\ requests[r].pc = "loaded"
    /\ Len(ledger_entries) < MaxLoanEntries
    /\ ledger_entries' = Append(ledger_entries,
            [loan |-> requests[r].id, entry_type |-> requests[r].entry_type,
             payment_amount |-> requests[r].payment_amount])
    /\ requests' = [requests EXCEPT ![r].pc = "saved"]
    /\ UNCHANGED <<loans, today, lastOp, stockVars, ledgerVars, bankVars>>

\* loan.refresh_status() of request r, on the loan object the request loaded: the
\* outstanding principal is queried now, the status tested is the loaded one, and
\* save(update_fields=['status', 'closed_date']) runs only in the two branches.
CreditCardLoanLedgerCreateView_refresh(r) ==
    /\ r \in RequestIds
    /\ requests[r].view = "CreditCardLoanLedgerCreateView"
    /\ requests[r].pc = "saved"
    /\ LET l == requests[r].id
           self == refresh_status(requests[r].loan, l, ledger_entries, today)
       IN  /\ loans' = IF self # requests[r].loan
                       THEN [loans EXCEPT ![l].status = self.status,
                                          ![l].closed_date = self.closed_date]
                       ELSE loans
           /\ requests' = [requests EXCEPT ![r].pc = "done", ![r].loan = self]
    /\ UNCHANGED <<ledger_entries, today, lastOp, stockVars, ledgerVars, bankVars>>

\* A loan created active with its first disbursement, then postings on it that are
\* served at the same time.
LoanRaceNext ==
    \/ \E p \in Amounts : loans = <<>> /\ CreditCardLoanCreateView(p, "active", None)
    \/ \E l \in LoanIds, t \in {"disbursement", "payment"}, a \in Amounts :
            CreditCardLoanLedgerCreateView_load(l, t, a)
    \/ \E r \in RequestIds : CreditCardLoanLedgerCreateView_save(r)
    \/ \E r \in RequestIds : CreditCardLoanLedgerCreateView_refresh(r)

LoanRaceSpec == LoanInit /\ [][LoanRaceNext]_vars

\* ------------------------------------------------- loan reports
\* The annotations of DashboardView's closed_loans queryset: Sum over the loan's
\* ledger entries of payment_amount for the entries of type t (None for a loan
\* without any entry, which 'or 0' turns into 0).
annotated_total(pk, t, table) == SumPayment(EntriesOf(pk, t, table), table)

\* DashboardView.get_context_data: context['closed_loan_interest_paid'].
closed_loan_interest_paid(loan_table, table) ==
    LET closed_loans == {l \in 1..Len(loan_table) : loan_table[l].status = "closed"}
    IN  SumOver([l \in 1..Len(loan_table) |->
                    Max(annotated_total(l, "payment", table)
                        - annotated_total(l, "disbursement", table), 0)],
                closed_loans)

\* A request for the dashboard; requests keeps the context of the last report only.
DashboardView ==
    /\ requests' = <<[view |-> "DashboardView", pc |-> "done",
                      closed_loan_interest_paid |->
                          closed_loan_interest_paid(loans, ledger_entries)]>>
    /\ lastOp' = [op |-> "DashboardView", id |-> None]
    /\ UNCHANGED <<loans, ledger_entries, today, stockVars, ledgerVars, bankVars>>

\* BankAccountLedgerView.get_context_data for the account all loans are attached
\* to: the per-loan figures and the totals.
BankAccountLedgerView ==
    LET received_amount == [l \in LoanIds |-> get_total_disbursed(loans[l], l, ledger_entries)]
        paid_amount == [l \in LoanIds |-> get_total_paid(loans[l], l, ledger_entries)]
        left_amount == [l \in LoanIds |-> get_outstanding_principal(loans[l], l, ledger_entries)]
        total_received == SumOver(received_amount, LoanIds)
        total_paid == SumOver(paid_amount, LoanIds)
    IN  /\ requests' = <<[view |-> "BankAccountLedgerView", pc |-> "done",
                          left_amount |-> left_amount,
                          total_received |-> total_received,
                          total_paid |-> total_paid,
                          total_left |-> IF total_received > total_paid
                                         THEN total_received - total_paid ELSE 0]>>
        /\ lastOp' = [op |-> "BankAccountLedgerView", id |-> None]
        /\ UNCHANGED <<loans, ledger_entries, today, stockVars, ledgerVars, bankVars>>

\* The loans of one bank account: created, edited, posted to, and reported.
ReportNext ==
    \/ \E p \in Principals :
          /\ Len(loans) < MaxAccountLoans
          /\ CreditCardLoan_create(p)
    \/ \E p \in Principals :
          /\ Len(loans) < MaxAccountLoans
          /\ CreditCardLoanCreateView(p, "active", None)
    \/ \E l \in LoanIds, p \in Principals :
            CreditCardLoanUpdateView(l, p, loans[l].status, loans[l].closed_date)
    \/ \E l \in LoanIds, t \in {"disbursement", "payment"}, a \in Amounts :
            CreditCardLoanLedgerCreateView(l, t, a)
    \/ DashboardView
    \/ BankAccountLedgerView

ReportSpec == LoanInit /\ [][ReportNext]_vars

\* ------------------------------------------------- interrupted postings
\* Neither ledger view wraps its two statements in transaction.atomic(), so the
\* entry saved by super().form_valid(form) is committed on its own.
\* CreditCardLoanLedgerCreateView.form_valid when the request fails after the entry
\* is saved and before loan.refresh_status() writes the loan.
CreditCardLoanLedgerCreateView_interrupted(l, t, a) ==
    /\ l \in LoanIds
    /\ Len(ledger_entries) < MaxLoanEntries
    /\ ledger_entries' = Append(ledger_entries,
            [loan |-> l, entry_type |-> t, payment_amount |-> a])
    /\ lastOp' = [op |-> "CreditCardLoanLedgerCreateView_interrupted", id |-> l]
    /\ UNCHANGED <<loans, today, stockVars, ledgerVars, bankVars, requestVars>>

\* CustomerLedgerCreateView.form_valid when the request fails after the entry is
\* saved and before update_customer_balance writes the customer.
CustomerLedgerCreateView_interrupted(c, transaction_type, amount) ==
    /\ Cardinality(ManualEntries) < MaxPostings
    /\ customer_ledger' = Append(customer_ledger,
            [customer |-> c, transaction_type |-> transaction_type,
             amount |-> amount, description |-> <<"manual", None, 0>>,
             reference |-> ManualReference, transaction_date |-> clock])
    /\ lastCall' = [NoCall EXCEPT !.op = "CustomerLedgerCreateView_interrupted",
                                  !.customer = c]
    /\ UNCHANGED <<customers, clock, stockVars, loanVars, bankVars, requestVars>>

\* The ledger postings of a loan that starts active with a positive principal, and
\* of the customers, each request either completing or failing between its two
\* statements.
PostingNext ==
    \/ \E p \in Amounts : loans = <<>> /\ CreditCardLoan_create(p)
    \/ \E l \in LoanIds, t \in {"disbursement", "payment"}, a \in Amounts :
            CreditCardLoanLedgerCreateView(l, t, a)
    \/ \E l \in LoanIds, t \in {"disbursement", "payment"}, a \in Amounts :
            CreditCardLoanLedgerCreateView_interrupted(l, t, a)
    \/ \E c \in Customers, transaction_type \in TransactionTypes :
          \E amount \in PostedAmounts(transaction_type) :
             CustomerLedgerCreateView(c, transaction_type, amount)
    \/ \E c \in Customers, transaction_type \in TransactionTypes :
          \E amount \in PostedAmounts(transaction_type) :
             CustomerLedgerCreateView_interrupted(c, transaction_type, amount)
    \/ NextDay

PostingSpec == LoanInit /\ [][PostingNext]_vars

\* ------------------------------------------------- cached balance properties
\* The sum of the amounts of the customer's entries of one transaction type.
TypeTotal(customer, transaction_type) ==
    SumOver([i \in 1..Len(customer_ledger) |-> customer_ledger[i].amount],
            {i \in 1..Len(customer_ledger) :
                /\ customer_ledger[i].customer = customer
                /\ customer_ledger[i].transaction_type = transaction_type})

\* The signed sum of the customer's entries: sales, opening balances and adjustments
\* count with their amount, payments and returns with its negation.
SignedSum(customer) ==
    TypeTotal(customer, "sale") + TypeTotal(customer, "opening_balance")
    + TypeTotal(customer, "adjustment")
    - TypeTotal(customer, "payment") - TypeTotal(customer, "return")

\* C17: the balance update_customer_balance writes for a customer is the sum over all
\* of the customer's ledger entries of +amount for sale, opening_balance and
\* adjustment entries and -amount for payment and return entries.
C17_RecomputedBalanceIsSignedSum ==
    lastCall.op = "CustomerLedgerCreateView" =>
        customers[lastCall.customer].current_balance = SignedSum(lastCall.customer)

\* A return was posted by hand for a customer who already has the sale entry and the
\* deposit entry of an order.
C17_Witness ==
    /\ lastCall.op = "CustomerLedgerCreateView"
    /\ customer_ledger[Len(customer_ledger)].transaction_type = "return"
    /\ customer_ledger[Len(customer_ledger)].customer = lastCall.customer
    /\ TypeTotal(lastCall.customer, "sale") > 0
    /\ TypeTotal(lastCall.customer, "payment") > 0
    /\ customers[lastCall.customer].current_balance # 0

\* ------------------------------------------------- posting atomicity
\* C16: each ledger posting is atomic with its projection: whether the request
\* completed or failed after saving the entry, the state it leaves has the loan's
\* status reconciled with its outstanding principal, and the customer's cached
\* balance equal to the signed sum of the customer's entries.
C16_PostingKeepsProjection ==
    /\ \A l \in LoanIds :
          (/\ lastOp.op \in {"CreditCardLoanLedgerCreateView",
                             "CreditCardLoanLedgerCreateView_interrupted"}
           /\ lastOp.id = l)
          => (loans[l].status = "closed" <=> get_outstanding_principal(loans[l], l, ledger_entries) = 0)
    /\ \A c \in Customers :
          (/\ lastCall.op \in {"CustomerLedgerCreateView",
                               "CustomerLedgerCreateView_interrupted"}
           /\ lastCall.customer = c)
          => customers[c].current_balance = SignedSum(c)

\* C18: starting from balance 0 and no entries, after any sequential mix of sales
\* order creations, sales order edits and manual ledger postings, every customer's
\* cached current_balance equals the signed sum of that customer's ledger entries.
C18_CachedBalanceIsSignedSum ==
    \A c \in Customers : customers[c].current_balance = SignedSum(c)

\* An order was created with a total, an entry was then posted by hand, and a later
\* edit of the order added its deposit; the customer owes a balance.
C18_Witness ==
    /\ lastCall.op = "SalesOrderUpdateView"
    /\ \E c \in Customers :
          /\ sales_orders[lastCall.order].customer = c
          /\ customers[c].current_balance # 0
          /\ \E s, m, d \in 1..Len(customer_ledger) :
                /\ s < m /\ m < d
                /\ customer_ledger[s].customer = c
                /\ customer_ledger[s].reference = SaleReference(lastCall.order)
                /\ customer_ledger[s].amount > 0
                /\ customer_ledger[m].customer = c
                /\ customer_ledger[m].reference = ManualReference
                /\ customer_ledger[d].customer = c
                /\ customer_ledger[d].reference = DepositReference(lastCall.order)

\* The 'sale' entries of the whole ledger whose reference is the number of order pk.
SaleEntriesOf(pk) ==
    {i \in 1..Len(customer_ledger) :
        /\ customer_ledger[i].transaction_type = "sale"
        /\ customer_ledger[i].reference = SaleReference(pk)}

\* C19: after an order's creation and any later edits, including edits of its total
\* or of its customer, the ledger holds exactly one 'sale' entry with the order's
\* number as reference, and the amount of that entry is the order's total_amount.
C19_OneSaleEntryPerOrder ==
    \A pk \in 1..Len(sales_orders) :
        /\ Cardinality(SaleEntriesOf(pk)) = 1
        /\ \A i \in SaleEntriesOf(pk) : customer_ledger[i].amount = sales_orders[pk].total_amount

\* ------------------------------------------------- bank ledger properties
\* C20: the transaction ledger of an account lists each of the account's entries
\* once, in ascending (transaction_date, id) order; the first row's balance is the
\* opening balance plus the amount of a deposit or minus the amount of a withdrawal,
\* every later row's balance is the previous row's balance plus or minus its
\* amount in the same way, and the last row's balance is the opening balance plus
\* the sum of the deposits minus the sum of the withdrawals.
C20_RunningBalanceWalk ==
    bank_context.account # None =>
        LET pk == bank_context.account
            rows == bank_context.ledger_rows
            Signed(k) == IF bank_ledger[rows[k].entry].entry_type = "deposit"
                         THEN bank_ledger[rows[k].entry].amount
                         ELSE 0 - bank_ledger[rows[k].entry].amount
            DepositEntries == {e \in 1..Len(bank_ledger) :
                            /\ bank_ledger[e].bank_account = pk
                            /\ bank_ledger[e].entry_type = "deposit"}
            WithdrawalEntries == {e \in 1..Len(bank_ledger) :
                            /\ bank_ledger[e].bank_account = pk
                            /\ bank_ledger[e].entry_type = "withdrawal"}
            Amount == [e \in 1..Len(bank_ledger) |-> bank_ledger[e].amount]
        IN  /\ {rows[k].entry : k \in 1..Len(rows)}
                  = {e \in 1..Len(bank_ledger) : bank_ledger[e].bank_account = pk}
            /\ \A k \in 1..(Len(rows) - 1) :
                  LET a == bank_ledger[rows[k].entry]
                      b == bank_ledger[rows[k + 1].entry]
                  IN  \/ a.transaction_date < b.transaction_date
                      \/ /\ a.transaction_date = b.transaction_date
                         /\ rows[k].entry < rows[k + 1].entry
            /\ \A k \in 1..Len(rows) :
                  rows[k].balance = (IF k = 1 THEN bank_accounts[pk].opening_balance
                                     ELSE rows[k - 1].balance) + Signed(k)
            /\ Len(rows) > 0 =>
                  /\ rows[Len(rows)].balance =
                        bank_accounts[pk].opening_balance
                        + SumOver(Amount, DepositEntries) - SumOver(Amount, WithdrawalEntries)
                  /\ rows[Len(rows)].balance = acc_balance(pk, bank_accounts, bank_ledger)

\* The ledger of an account with a positive opening balance is shown with two rows,
\* a deposit and a withdrawal, where the entry saved first is dated later than the
\* one saved after it, and another account has an entry too.
C20_Witness ==
    /\ bank_context.account # None
    /\ bank_accounts[bank_context.account].opening_balance > 0
    /\ Len(bank_context.ledger_rows) = 2
    /\ bank_context.ledger_rows[1].entry > bank_context.ledger_rows[2].entry
    /\ \E k, n \in 1..2 :
          /\ bank_ledger[bank_context.ledger_rows[k].entry].entry_type = "deposit"
          /\ bank_ledger[bank_context.ledger_rows[n].entry].entry_type = "withdrawal"
    /\ \E e \in 1..Len(bank_ledger) : bank_ledger[e].bank_account # bank_context.account

\* ------------------------------------------------- receipt status properties
\* C21: a goods receipt's status only moves from draft to received, by
\* confirm_goods_receipt, and from received to cancelled, by cancel_goods_receipt;
\* confirm_receipt on a receipt that is not draft and cancel_receipt on a receipt
\* that is not received return False and leave the row as it is; so a cancelled
\* receipt never becomes draft or received again and a received one never draft.
C21_ReceiptStatusMoves ==
    [][/\ Len(goods_receipts') >= Len(goods_receipts)
       /\ \A pk \in 1..Len(goods_receipts) :
             LET self == goods_receipts[pk]
                 after == goods_receipts'[pk]
             IN  /\ after.status # self.status =>
                       \/ /\ self.status = "draft" /\ after.status = "received"
                          /\ confirm_goods_receipt(pk)
                       \/ /\ self.status = "received" /\ after.status = "cancelled"
                          /\ cancel_goods_receipt(pk)
                 /\ self.status # "draft" =>
                       ~confirm_receipt_returns(self) /\ confirm_receipt(self) = self
                 /\ self.status # "received" =>
                       ~cancel_receipt_returns(self) /\ cancel_receipt(self) = self]_vars

\* A request on a cancelled receipt was answered with the warning, while another
\* receipt is received.
C21_Witness ==
    /\ response = "warning"
    /\ \E pk, other \in 1..Len(goods_receipts) :
          /\ goods_receipts[pk].status = "cancelled"
          /\ goods_receipts[other].status = "received"

\* ------------------------------------------------- deposit removal
\* C22: when an order with a customer deposit above 0 and a deposit entry in the
\* ledger is edited so that the deposit becomes 0 (customer and total unchanged),
\* the deposit entry is deleted and the customer's current_balance goes up by the
\* old deposit.
C22_DepositRemovalDeletesEntry ==
    [][\A pk \in 1..Len(sales_orders) :
          LET order == sales_orders[pk]
              c == order.customer
          IN  (/\ order.customer_deposit > 0
               /\ FirstEntry(c, DepositReference(pk), "payment", customer_ledger) # None
               /\ SalesOrderUpdateView(pk, c, order.total_amount, 0))
              => /\ FirstEntry(c, DepositReference(pk), "payment", customer_ledger') = None
                 /\ customers'[c].current_balance
                       = customers[c].current_balance + order.customer_deposit]_vars

\* ------------------------------------------------- concurrency properties
\* C23: when requests post ledger effects for the same customer at the same time,
\* no update of the cached balance is lost: once all of them have completed, the
\* customer's current_balance is the starting balance 0 plus the signed amount of
\* every entry posted.
C23_NoLostBalanceUpdate ==
    AllDone => \A c \in Customers : customers[c].current_balance = SignedSum(c)

\* ------------------------------------------------- statement properties
\* The statement last rendered, and whether the ledger still holds exactly the
\* entries it shows.
Statement == requests[1]
StatementShown ==
    /\ Len(requests) = 1
    /\ requests[1].view \in StatementViews
StatementFresh ==
    /\ StatementShown
    /\ {Statement.context.transactions[k].entry :
            k \in 1..Len(Statement.context.transactions)}
          = LedgerEntriesOf(Statement.customer, customer_ledger)

\* Row k of the statement carries the sum of debit - credit over itself, the rows
\* dated before it, and those of the rows of its own date that were replayed before it.
BalanceIsCumulative(rows, k) ==
    LET net == [j \in 1..Len(rows) |-> rows[j].debit - rows[j].credit]
        earlier == {j \in 1..Len(rows) : rows[j].date < rows[k].date}
        sameDate == {j \in 1..Len(rows) : j # k /\ rows[j].date = rows[k].date}
    IN  \E T \in SUBSET sameDate :
           rows[k].balance = net[k] + SumOver(net, earlier) + SumOver(net, T)

StatementBalancesCumulative ==
    StatementShown =>
        \A k \in 1..Len(Statement.context.transactions) :
            BalanceIsCumulative(Statement.context.transactions, k)

\* C24: the statement lists the transactions in descending date order, newest
\* first, and each row's running balance is the sum of debit - credit over that row
\* and all chronologically earlier rows.
C24_StatementNewestFirst ==
    StatementShown =>
        LET rows == Statement.context.transactions
        IN  /\ \A k \in 1..(Len(rows) - 1) : rows[k].date >= rows[k + 1].date
            /\ \A k \in 1..Len(rows) : BalanceIsCumulative(rows, k)

\* C28: the current balance the statement shows for a customer, total debit minus
\* total credit, is the balance update_customer_balance computes from the same
\* entries, whatever their transaction types.
C28_StatementBalanceIsRecomputedBalance ==
    StatementFresh =>
        Statement.context.current_balance
           = update_customer_balance(Statement.customer, customer_ledger)

\* C25: for every interleaving of two postings on the same loan, each loading the
\* loan, saving its entry and running refresh_status on the loaded object, once both
\* have completed the stored status is closed exactly when the outstanding principal
\* computed from all entries is 0.
C25_ConcurrentPostingsReconcile ==
    (AllDone /\ Len(requests) = MaxRequests) =>
        \A l \in LoanIds :
            loans[l].status = "closed"
               <=> get_outstanding_principal(loans[l], l, ledger_entries) = 0

\* ------------------------------------------------- overselling
\* C26: after any sequence of receipt confirmations and cancellations, sales order
\* lines accepted by the stock check and deliveries of those orders, the received
\* quantity minus the delivered quantity is at least 0 for every product and
\* warehouse, so the clamp of get_realtime_quantity never hides a negative value.
C26_NoOverselling ==
    \A p \in Products, w \in Warehouses : RawStock(p, w) >= 0

\* ------------------------------------------------------- report properties
\* C27: the closed-loan interest figure the dashboard has just rendered equals
\* the sum of get_total_interest_paid() over the loans whose status is 'closed',
\* closed loans without any disbursement entry included.
C27_DashboardInterestIsSumOfLoans ==
    lastOp.op = "DashboardView" =>
        requests[1].closed_loan_interest_paid =
            SumOver([l \in LoanIds |-> InterestPaid(l)],
                    {l \in LoanIds : loans[l].status = "closed"})

\* C29: posting a disbursement of a positive amount never lowers the loan's
\* get_total_disbursed() nor its get_outstanding_principal(), a loan without
\* any earlier disbursement entry included.
C29_DisbursementNeverDecreases ==
    [][\A l \in LoanIds :
          (EntryPosted(l, "disbursement")
              /\ ledger_entries'[Len(ledger_entries')].payment_amount > 0) =>
             /\ get_total_disbursed(loans'[l], l, ledger_entries') >= Disbursed(l)
             /\ get_outstanding_principal(loans'[l], l, ledger_entries') >= Outstanding(l)]_vars

\* C30: the total_left the bank account page has just rendered equals the sum
\* of the left_amount of the loans it lists, overpaid loans included.
C30_TotalLeftIsSumOfLeftAmounts ==
    lastOp.op = "BankAccountLedgerView" =>
        requests[1].total_left = SumOver(requests[1].left_amount, LoanIds)

====
